---- MODULE Spec2Model ----
(***************************************************************************)
(* A model of dynamo's velocity-tree orientation                           *)
(* (dynamo/tools/construct_velocity_tree.py) and of the Scribe wrapper     *)
(* (dynamo/external/scribe.py).                                            *)
(*                                                                         *)
(* Conventions.  Python lists and 1-d arrays are TLA+ sequences (their     *)
(* positions are 1-based, the node labels they hold are Python's 0-based   *)
(* indices).  Matrices are functions  row -> (column -> value)  over       *)
(* 0-based indices.  Python's None, where the code only tests it for       *)
(* truthiness or gets it in place of a list, is the empty sequence.        *)
(* Floating-point values are exact rationals <<numerator, denominator>>.   *)
(***************************************************************************)
EXTENDS Integers, Sequences, FiniteSets, TLC

VARIABLES
    obsp,       \* adata.obsp: key -> cell-level matrix
    uns,        \* adata.uns: key -> value
    installed,  \* whether `import Scribe` succeeds in this environment
    effects,    \* what the running call has read, copied and called, in order
    call,       \* the function called last and its arguments
    ret,        \* how that call ended: a return value or a raised exception
    pre         \* adata as it was when that call started

vars == <<obsp, uns, installed, effects, call, ret, pre>>

(***************************************************************************)
(* Bounds of the model.                                                    *)
(***************************************************************************)
MaxNodes == 5       \* _get_all_segments is applied to trees of 1..MaxNodes nodes
NumCenters == 3     \* construct_velocity_tree runs on 1..NumCenters centers
MaxNZ == 2          \* nonzero entries of a cell-level transition matrix

NoParent == -1      \* the parent recorded for the root

(***************************************************************************)
(* Python and numpy helpers.                                               *)
(***************************************************************************)
\* F applied to the value of e, with e evaluated once
Bind(e, F(_)) == CHOOSE y \in {F(x) : x \in {e}} : TRUE

Range(s) == {s[i] : i \in DOMAIN s}

Min(a, b) == IF a <= b THEN a ELSE b

Max(a, b) == IF a >= b THEN a ELSE b

\* x in s
InList(x, s) == \E i \in DOMAIN s : s[i] = x

\* collections.Counter(s)[x]
Count(x, s) == Cardinality({i \in DOMAIN s : s[i] = x})

\* list(Counter(s).keys()): the distinct elements in order of first appearance
CounterKeys(s) ==
    LET first == SelectSeq([i \in DOMAIN s |-> i],
                           LAMBDA i : \A j \in 1..(i - 1) : s[j] # s[i])
    IN  [k \in DOMAIN first |-> s[first[k]]]

\* s[::-1]
Reversed(s) == [i \in 1..Len(s) |-> s[Len(s) + 1 - i]]

\* {k: v for k, v in zip(keys, values)}: a later pair overwrites an earlier one
DictOfZip(keys, values) ==
    LET n == Min(Len(keys), Len(values))
    IN  [k \in {keys[i] : i \in 1..n} |->
            values[CHOOSE i \in 1..n :
                       keys[i] = k /\ \A j \in (i + 1)..n : keys[j] # k]]

(***************************************************************************)
(* _get_edges(orders, parents=None)                                        *)
(***************************************************************************)
GetEdges(orders, parents) ==
    IF Len(parents) > 0
    THEN SelectSeq([i \in 1..Min(Len(parents), Len(orders)) |->
                        <<parents[i], orders[i]>>],
                   LAMBDA e : e[1] # NoParent)
    ELSE [i \in 1..(Len(orders) - 1) |-> <<orders[i], orders[i + 1]>>]

(***************************************************************************)
(* _get_path(parents_dict, start, end_nodes); None is <<>>                 *)
(***************************************************************************)
RECURSIVE ClimbToEnd(_, _, _, _)
\* the while loop: climb from cur until it is one of end_nodes
ClimbToEnd(parents_dict, cur, end_nodes, path) ==
    IF InList(cur, end_nodes)
    THEN path
    ELSE ClimbToEnd(parents_dict, parents_dict[cur], end_nodes,
                    Append(path, parents_dict[cur]))

GetPath(parents_dict, start, end_nodes) ==
    IF parents_dict[start] = NoParent
    THEN <<>>
    ELSE ClimbToEnd(parents_dict, parents_dict[start], end_nodes,
                    <<start, parents_dict[start]>>)

(***************************************************************************)
(* _get_all_segments(orders, parents)                                      *)
(***************************************************************************)
\* `parents_dict == -1` compares a dict with an int: always False in Python
DictIsMinusOne(parents_dict) == FALSE

LeafNodes(orders, parents) == SelectSeq(orders, LAMBDA n : ~InList(n, parents))

BifurcationNodes(orders, parents) ==
    LET parents_dict == DictOfZip(orders, parents)
    IN  SelectSeq(CounterKeys(parents),
                  LAMBDA n : /\ Count(n, parents) > 1
                             /\ n # NoParent
                             /\ ~(Count(n, parents) = 2
                                  /\ DictIsMinusOne(parents_dict)))

RootNodes(orders, parents) ==
    LET parents_dict == DictOfZip(orders, parents)
    IN  SelectSeq(orders, LAMBDA n : parents_dict[n] = NoParent)

\* start_nodes without the bifurcation nodes
StartNodesLeavesOnly(orders, parents) == LeafNodes(orders, parents)

StartNodes(orders, parents) ==
    LeafNodes(orders, parents) \o BifurcationNodes(orders, parents)

\* end_nodes aliases bifurcation_nodes and gets the roots appended
EndNodes(orders, parents) ==
    LET bifurcation_nodes == BifurcationNodes(orders, parents)
    IN  bifurcation_nodes \o
        SelectSeq(RootNodes(orders, parents),
                  LAMBDA n : ~InList(n, bifurcation_nodes))

GetAllSegments(orders, parents) ==
    IF Len(LeafNodes(orders, parents)) = 1
    THEN <<orders>>
    ELSE LET parents_dict == DictOfZip(orders, parents)
             start_nodes == StartNodes(orders, parents)
             end_nodes == EndNodes(orders, parents)
             paths == [i \in DOMAIN start_nodes |->
                          GetPath(parents_dict, start_nodes[i], end_nodes)]
         IN  SelectSeq(paths, LAMBDA p : p # <<>>)

(***************************************************************************)
(* Inputs: rooted trees as (orders, parents), each parent listed before    *)
(* its children, as np.argsort of the centers' order and the parent array  *)
(* give them.                                                              *)
(***************************************************************************)
Permutations0(k) ==
    {s \in [1..k -> 0..(k - 1)] : \A i, j \in 1..k : s[i] = s[j] => i = j}

\* for every position but the first, the earlier position that holds its parent
ParentPositions(k) ==
    {pp \in [2..k -> 1..Max(k - 1, 1)] : \A i \in 2..k : pp[i] < i}

TreeInputs(k) ==
    {<<o, [i \in 1..k |-> IF i = 1 THEN NoParent ELSE o[pp[i]]]>> :
        o \in Permutations0(k), pp \in ParentPositions(k)}

(***************************************************************************)
(* Floating-point values, as exact rationals <<n, d>> in lowest terms with *)
(* d > 0.  A zero denominator is an IEEE special value: <<0, 0>> is nan,   *)
(* <<1, 0>> is inf and <<-1, 0>> is -inf.                                  *)
(***************************************************************************)
Abs(x) == IF x < 0 THEN -x ELSE x

RECURSIVE GCD(_, _)
GCD(a, b) == IF b = 0 THEN a ELSE GCD(b, a % b)

Rat(n, d) ==
    LET g == GCD(Abs(n), Abs(d))
        s == IF d < 0 THEN -1 ELSE 1
    IN  <<(s * n) \div g, (s * d) \div g>>

RatZero == <<0, 1>>

RatOne == <<1, 1>>

RatAdd(x, y) == Rat(x[1] * y[2] + y[1] * x[2], x[2] * y[2])

RatMul(x, y) == Rat(x[1] * y[1], x[2] * y[2])

RatLess(x, y) == x[1] * y[2] < y[1] * x[2]

\* a / b of numpy under errstate(divide='ignore', invalid='ignore')
TrueDivide(a, b) ==
    IF b # 0 THEN Rat(a, b)
    ELSE IF a = 0 THEN <<0, 0>>
    ELSE IF a > 0 THEN <<1, 0>> ELSE <<-1, 0>>

IsInf(x) == x[2] = 0 /\ x[1] # 0

IsNan(x) == x[2] = 0 /\ x[1] = 0

\* m[np.isinf(m)] = 0, elementwise
InfToZero(x) == IF IsInf(x) THEN RatZero ELSE x

\* np.nan_to_num(m), elementwise, on a value that is not infinite
NanToNum(x) == IF IsNan(x) THEN RatZero ELSE x

RECURSIVE SumFn(_, _)
\* np.sum of the values of f over the index set S
SumFn(f, S) ==
    IF S = {} THEN 0
    ELSE LET x == CHOOSE x \in S : TRUE
         IN  f[x] + SumFn(f, S \ {x})

(***************************************************************************)
(* _compute_center_transition_matrix(transition_matrix, R)                 *)
(***************************************************************************)
\* np.argmax of one row: the first index that holds the maximum
ArgMax(row) ==
    CHOOSE c \in DOMAIN row :
        /\ \A d \in DOMAIN row : row[d] <= row[c]
        /\ \A d \in DOMAIN row : d < c => row[d] < row[c]

\* assignment = np.argmax(R, axis=1)
Assignment(R) == [i \in DOMAIN R |-> ArgMax(R[i])]

\* range(num_clusters), num_clusters = R.shape[1]
ClusterIds(R) == DOMAIN R[CHOOSE i \in DOMAIN R : TRUE]

\* clusters = {i: np.where(assignment == i)[0] for i in range(num_clusters)}
Clusters(R) ==
    Bind(Assignment(R), LAMBDA assignment :
        [a \in ClusterIds(R) |-> {i \in DOMAIN R : assignment[i] = a}])

\* the value q of the loop body for the pair (a, b)
ClusterFlow(transition_matrix, R, clusters, a, b) ==
    LET indices_a == clusters[a]
        indices_b == clusters[b]
    IN  IF indices_a # {} /\ indices_b # {}
        THEN SumFn([p \in indices_a \X indices_b |->
                        R[p[1]][a] * R[p[2]][b] * transition_matrix[p[1]][p[2]]],
                   indices_a \X indices_b)
        ELSE 0

\* the loop body without its `if a == b: continue`
LoopVisitsAll(a, b) == TRUE

\* whether the loop body runs for (a, b): `if a == b: continue`
LoopVisits(a, b) == a # b

\* the array `transition` after the double loop
TransitionSums(transition_matrix, R) ==
    Bind(Clusters(R), LAMBDA clusters :
        [a \in ClusterIds(R) |-> [b \in ClusterIds(R) |->
            IF LoopVisits(a, b)
            THEN ClusterFlow(transition_matrix, R, clusters, a, b)
            ELSE 0]])

\* the array `totals` after the double loop: totals[a] += q for every b visited
Totals(transition) ==
    [a \in DOMAIN transition |-> SumFn(transition[a], DOMAIN transition[a])]

\* res = transition / totals; res[np.isinf(res)] = 0; res = np.nan_to_num(res)
NormalizeRows(transition, totals) ==
    [a \in DOMAIN transition |-> [b \in DOMAIN transition[a] |->
        NanToNum(InfToZero(TrueDivide(transition[a][b], totals[a])))]]

ComputeCenterTransitionMatrix(transition_matrix, R) ==
    Bind(TransitionSums(transition_matrix, R), LAMBDA transition :
        Bind(Totals(transition), LAMBDA totals :
            NormalizeRows(transition, totals)))

(***************************************************************************)
(* _calculate_segment_probability(transition_matrix, segments)             *)
(*                                                                         *)
(* A log value is represented by its exponential, which orders the same    *)
(* way: log1p(p) by 1 + p, a sum of logs by the product.                   *)
(***************************************************************************)
\* np.log1p(p) with -inf (p = -1) set to 0 and nan (p < -1) set to 0
Log1p(p) ==
    LET q == RatAdd(RatOne, p)
    IN  IF q[1] <= 0 THEN RatOne ELSE q

RECURSIVE CumSum(_)
\* np.cumsum of log values: a running product of their exponentials
CumSum(logs) ==
    IF Len(logs) <= 1 THEN logs
    ELSE LET front == CumSum(SubSeq(logs, 1, Len(logs) - 1))
         IN  Append(front, RatMul(front[Len(front)], logs[Len(logs)]))

CalculateSegmentProbability(transition_matrix, segments) ==
    CumSum([i \in DOMAIN segments |->
               Log1p(transition_matrix[segments[i][1]][segments[i][2]])])

(***************************************************************************)
(* construct_velocity_tree(adata, transition_matrix_key)                   *)
(***************************************************************************)
\* np.argsort of a 1-d array: the indices in increasing order of their values
ArgSort(a) ==
    [k \in 1..Cardinality(DOMAIN a) |->
        CHOOSE i \in DOMAIN a :
            Cardinality({j \in DOMAIN a :
                            a[j] < a[i] \/ (a[j] = a[i] /\ j < i)}) = k - 1]

\* parents = [centers_parent[node] for node in orders]
ParentsOf(centers_parent, orders) ==
    [k \in DOMAIN orders |-> centers_parent[orders[k]]]

\* directed_velocity_tree = velocity_tree, without .copy(): one array object
ArrayAlias(velocity_tree) ==
    [velocity_tree |-> velocity_tree,
     directed_velocity_tree |-> velocity_tree,
     shared |-> TRUE]

\* The two arrays the loop works on.  `shared` tells whether both names are
\* bound to one array object, so that a write through one shows in the other.
\* directed_velocity_tree = velocity_tree.copy(): a new array object
ArrayCopy(velocity_tree) ==
    [velocity_tree |-> velocity_tree,
     directed_velocity_tree |-> velocity_tree,
     shared |-> FALSE]

\* directed_velocity_tree[r, c] = v
SetDirected(h, r, c, v) ==
    [h EXCEPT !.directed_velocity_tree = [@ EXCEPT ![r][c] = v],
              !.velocity_tree = IF h.shared THEN [@ EXCEPT ![r][c] = v] ELSE @]

\* the comparison made on segment_p[0] in place of segment_p[-1]
SegmentBranchFirst(segment_p, segment_p_reversed) ==
    LET fwd == segment_p[1]
        bwd == segment_p_reversed[1]
    IN  IF RatLess(bwd, fwd) THEN "forward"
        ELSE IF RatLess(fwd, bwd) THEN "reverse"
        ELSE "keep"

\* the branch of the if / elif / else taken for one segment
SegmentBranch(segment_p, segment_p_reversed) ==
    LET fwd == segment_p[Len(segment_p)]
        bwd == segment_p_reversed[Len(segment_p_reversed)]
    IN  IF RatLess(bwd, fwd) THEN "forward"
        ELSE IF RatLess(fwd, bwd) THEN "reverse"
        ELSE "keep"

\* the body of the inner loop for the pair (r, c), in the given branch
OrientPair(h, r, c, branch) ==
    IF branch = "forward"
    THEN Bind(SetDirected(h, r, c,
                          Max(h.velocity_tree[r][c], h.velocity_tree[c][r])),
              LAMBDA h1 : SetDirected(h1, c, r, 0))
    ELSE IF branch = "reverse"
    THEN Bind(SetDirected(h, c, r,
                          Max(h.velocity_tree[r][c], h.velocity_tree[c][r])),
              LAMBDA h1 : SetDirected(h1, r, c, 0))
    ELSE Bind(SetDirected(h, c, r, h.velocity_tree[c][r]),
              LAMBDA h1 : SetDirected(h1, r, c, h1.velocity_tree[r][c]))

RECURSIVE OrientPairs(_, _, _, _)
\* for i, (r, c) in enumerate(edge_pairs): from position i on
OrientPairs(h, edge_pairs, i, branch) ==
    IF i > Len(edge_pairs) THEN h
    ELSE Bind(OrientPair(h, edge_pairs[i][1], edge_pairs[i][2], branch),
              LAMBDA h1 : OrientPairs(h1, edge_pairs, i + 1, branch))

\* the body of `for segment in segments`
OrientSegment(h, center_transition_matrix, segment) ==
    LET edge_pairs == GetEdges(segment, <<>>)
        edge_pairs_reversed == GetEdges(Reversed(segment), <<>>)
        segment_p ==
            CalculateSegmentProbability(center_transition_matrix, edge_pairs)
        segment_p_reversed ==
            CalculateSegmentProbability(center_transition_matrix, edge_pairs_reversed)
    IN  Bind(SegmentBranch(segment_p, segment_p_reversed),
             LAMBDA branch : OrientPairs(h, edge_pairs, 1, branch))

RECURSIVE OrientSegments(_, _, _, _)
\* for segment in segments: from position i on
OrientSegments(h, center_transition_matrix, segments, i) ==
    IF i > Len(segments) THEN h
    ELSE Bind(OrientSegment(h, center_transition_matrix, segments[i]),
              LAMBDA h1 : OrientSegments(h1, center_transition_matrix,
                                         segments, i + 1))

\* segment_p[-1] of an empty array raises IndexError: a segment of one node
IndexErrorAt(segments) == \E i \in DOMAIN segments : Len(segments[i]) < 2

\* transition_matrix_key + "_transition_matrix"
ObspKey(transition_matrix_key) == transition_matrix_key \o "_transition_matrix"

\* adata.uns[key] = value
SetItem(d, key, value) ==
    [k \in DOMAIN d \cup {key} |-> IF k = key THEN value ELSE d[k]]

NoCall == [fn |-> "none"]

NoRet == [kind |-> "none"]

Returned(v) == [kind |-> "return", value |-> v]

Raised(e) == [kind |-> "raise", exc |-> e]

(***************************************************************************)
(* The specification of _get_all_segments applied to a tree.               *)
(***************************************************************************)
InitSegments ==
    /\ \E k \in 1..MaxNodes : \E t \in TreeInputs(k) :
           call = [fn |-> "_get_all_segments", orders |-> t[1], parents |-> t[2]]
    /\ ret = NoRet
    /\ obsp = <<>>
    /\ uns = <<>>
    /\ installed = FALSE
    /\ effects = <<>>
    /\ pre = <<>>

CallGetAllSegments ==
    /\ call.fn = "_get_all_segments"
    /\ ret.kind = "none"
    /\ ret' = Returned(GetAllSegments(call.orders, call.parents))
    /\ UNCHANGED <<obsp, uns, installed, effects, call, pre>>

NextSegments == CallGetAllSegments

SpecSegments == InitSegments /\ [][NextSegments]_vars

(***************************************************************************)
(* Properties of _get_all_segments.                                        *)
(***************************************************************************)
\* the consecutive pairs (r, c) of a segment
PairsOf(segment) ==
    {<<segment[i], segment[i + 1]>> : i \in 1..(Len(segment) - 1)}

SegmentsReturned == call.fn = "_get_all_segments" /\ ret.kind = "return"

\* the tree's edges as (child, parent) pairs
ChildParentEdges(orders, parents) ==
    {<<orders[i], parents[i]>> : i \in {j \in DOMAIN orders : parents[j] # NoParent}}

ChildCount(n, parents) == Cardinality({i \in DOMAIN parents : parents[i] = n})

IsLeaf(n, parents) == ChildCount(n, parents) = 0

IsBifurcation(n, parents) == ChildCount(n, parents) >= 2

IsRoot(n, orders, parents) ==
    \E i \in DOMAIN orders : orders[i] = n /\ parents[i] = NoParent

\* how many times the edge {a, b} is a consecutive pair of a segment
EdgeUses(segments, a, b) ==
    Cardinality({p \in UNION {{<<s, i>> : i \in 1..(Len(segments[s]) - 1)} :
                              s \in DOMAIN segments} :
                    {segments[p[1]][p[2]], segments[p[1]][p[2] + 1]} = {a, b}})

\* every tree edge is in exactly one segment; one end of every segment is a
\* leaf or a bifurcation node and the other a bifurcation node or the root;
\* no interior node of a segment is a bifurcation node or the root
SegmentsPartition(segments, orders, parents) ==
    /\ \A e \in ChildParentEdges(orders, parents) :
           EdgeUses(segments, e[1], e[2]) = 1
    /\ \A s \in DOMAIN segments :
           LET seg == segments[s]
               from(a, b) == /\ IsLeaf(a, parents) \/ IsBifurcation(a, parents)
                             /\ IsBifurcation(b, parents) \/ IsRoot(b, orders, parents)
           IN  /\ Len(seg) >= 1
               /\ from(seg[1], seg[Len(seg)]) \/ from(seg[Len(seg)], seg[1])
               /\ \A i \in 2..(Len(seg) - 1) :
                      /\ ~IsBifurcation(seg[i], parents)
                      /\ ~IsRoot(seg[i], orders, parents)

\* C3 as stated: every consecutive pair of every segment is a (child, parent)
\* edge of the tree, and the segments partition the edges between leaves,
\* bifurcation nodes and the root.
C3_Original ==
    SegmentsReturned =>
        /\ \A s \in DOMAIN ret.value : \A e \in PairsOf(ret.value[s]) :
               e \in ChildParentEdges(call.orders, call.parents)
        /\ SegmentsPartition(ret.value, call.orders, call.parents)

\* C3 amended: every consecutive pair of every segment is a tree edge, as
\* (child, parent) when the tree has two leaves or more and as
\* (parent, child) when it has one leaf (the one segment is then `orders`,
\* from the root to the leaf); the segments partition the edges as stated.
C3_SegmentsPartitionEdges ==
    SegmentsReturned =>
        LET leaves == {n \in Range(call.orders) : IsLeaf(n, call.parents)}
        IN  /\ \A s \in DOMAIN ret.value : \A e \in PairsOf(ret.value[s]) :
                   IF Cardinality(leaves) = 1
                   THEN <<e[2], e[1]>> \in ChildParentEdges(call.orders, call.parents)
                   ELSE e \in ChildParentEdges(call.orders, call.parents)
            /\ SegmentsPartition(ret.value, call.orders, call.parents)

\* C3's case: a tree that branches below its root, cut into three segments or
\* more, one of them with an interior node
C3_Witness ==
    /\ SegmentsReturned
    /\ Len(ret.value) >= 3
    /\ \E s \in DOMAIN ret.value : Len(ret.value[s]) >= 3
    /\ \E n \in Range(call.orders) :
           IsBifurcation(n, call.parents) /\ ~IsRoot(n, call.orders, call.parents)

(***************************************************************************)
(* The specification of _compute_center_transition_matrix applied to a     *)
(* cell-level matrix and an assignment matrix R.                           *)
(***************************************************************************)
\* cell-level matrices over n cells with at most maxnz nonzero entries, all
\* off the diagonal, each drawn from `values`
SparseMatrices(n, maxnz, values) ==
    LET offdiag == {p \in (0..(n - 1)) \X (0..(n - 1)) : p[1] # p[2]}
        supports == {S \in SUBSET offdiag : Cardinality(S) <= maxnz}
    IN  UNION {{[i \in 0..(n - 1) |-> [j \in 0..(n - 1) |->
                    IF <<i, j>> \in S THEN v[<<i, j>>] ELSE 0]] :
                v \in [S -> values]} : S \in supports}

\* R for k cells and k centers: cell c weighs 2 on center c, but for one
\* cell, whose row is `row`
AssignmentWithRow(k, cell, row) ==
    [i \in 0..(k - 1) |-> [c \in 0..(k - 1) |->
        IF i = cell THEN row[c] ELSE IF i = c THEN 2 ELSE 0]]

InitCenter ==
    /\ \E T \in SparseMatrices(NumCenters, MaxNZ, {-1, 1}) :
       \E cell \in 0..(NumCenters - 1) :
       \E row \in [0..(NumCenters - 1) -> {0, 1}] :
           call = [fn |-> "_compute_center_transition_matrix",
                   transition_matrix |-> T,
                   R |-> AssignmentWithRow(NumCenters, cell, row)]
    /\ ret = NoRet
    /\ obsp = <<>>
    /\ uns = <<>>
    /\ installed = FALSE
    /\ effects = <<>>
    /\ pre = <<>>

CallComputeCenterTransitionMatrix ==
    /\ call.fn = "_compute_center_transition_matrix"
    /\ ret.kind = "none"
    /\ ret' = Returned(ComputeCenterTransitionMatrix(call.transition_matrix, call.R))
    /\ UNCHANGED <<obsp, uns, installed, effects, call, pre>>

NextCenter == CallComputeCenterTransitionMatrix

SpecCenter == InitCenter /\ [][NextCenter]_vars

(***************************************************************************)
(* Properties of _compute_center_transition_matrix.                        *)
(***************************************************************************)
CenterReturned ==
    call.fn = "_compute_center_transition_matrix" /\ ret.kind = "return"

\* the center of maximal R weight of a cell, the lowest index on ties
CenterOf(R, i) ==
    LET best == {c \in DOMAIN R[i] : \A d \in DOMAIN R[i] : R[i][d] <= R[i][c]}
    IN  CHOOSE c \in best : \A d \in best : c <= d

\* q(a, b), for every a and b: the sum of R[i, a] * R[j, b] * T[i, j] over the
\* cells i of a and j of b when a # b, and 0 when a = b
Flows(T, R) ==
    Bind([i \in DOMAIN R |-> CenterOf(R, i)], LAMBDA center :
        [a \in DOMAIN R[0] |-> [b \in DOMAIN R[0] |->
            IF a = b THEN 0
            ELSE SumFn([p \in (DOMAIN R) \X (DOMAIN R) |->
                           IF center[p[1]] = a /\ center[p[2]] = b
                           THEN R[p[1]][a] * R[p[2]][b] * T[p[1]][p[2]]
                           ELSE 0],
                       (DOMAIN R) \X (DOMAIN R))]])

RECURSIVE RatSum(_, _)
\* the sum of the rationals f[x] for x in S
RatSum(f, S) ==
    IF S = {} THEN RatZero
    ELSE LET x == CHOOSE x \in S : TRUE
         IN  RatAdd(f[x], RatSum(f, S \ {x}))

NonNegative(m) == \A i \in DOMAIN m : \A j \in DOMAIN m[i] : m[i][j] >= 0

\* C5: result[a, b] * sum_c q(a, c) = q(a, b) when sum_c q(a, c) # 0 and
\* result[a, b] = 0 otherwise; for non-negative T and R the diagonal is zero,
\* every row sums to 1 or is entirely zero, and the row and the column of a
\* center with no cell are zero.
C5_CenterMatrix ==
    CenterReturned =>
        \A q \in {Flows(call.transition_matrix, call.R)} :
            LET T == call.transition_matrix
                R == call.R
                res == ret.value
                centers == DOMAIN R[0]
            IN  /\ \A a \in centers : \A total \in {SumFn(q[a], centers)} :
                       \A b \in centers :
                           IF total # 0
                           THEN /\ res[a][b][2] # 0
                                /\ res[a][b][1] * total = q[a][b] * res[a][b][2]
                           ELSE res[a][b] = RatZero
                /\ (NonNegative(T) /\ NonNegative(R)) =>
                       /\ \A a \in centers : res[a][a] = RatZero
                       /\ \A a \in centers :
                              \/ RatSum(res[a], centers) = RatOne
                              \/ \A b \in centers : res[a][b] = RatZero
                       /\ \A a \in centers :
                              (\A i \in DOMAIN R : CenterOf(R, i) # a) =>
                                  \A b \in centers :
                                      res[a][b] = RatZero /\ res[b][a] = RatZero

\* C5's case: non-negative inputs, a cell that a tie assigns to a lower
\* center, which leaves its own center empty, and the row of that lower
\* center, fed by both of its cells, sums to 1
C5_Witness ==
    /\ CenterReturned
    /\ NonNegative(call.transition_matrix) /\ NonNegative(call.R)
    /\ \E i \in DOMAIN call.R :
           LET a == CenterOf(call.R, i)
           IN  /\ a < i
               /\ call.R[i][i] = call.R[i][a]
               /\ \A j \in DOMAIN call.R : CenterOf(call.R, j) # i
               /\ RatSum(ret.value[a], DOMAIN ret.value) = RatOne
               /\ \E b \in DOMAIN ret.value :
                      /\ call.transition_matrix[i][b] # 0
                      /\ call.transition_matrix[a][b] # 0

(***************************************************************************)
(* The specification of construct_velocity_tree called on an adata.        *)
(***************************************************************************)
\* the keys a caller passes as transition_matrix_key
TransitionKeys == {"pearson", "cosine"}

\* R of DDRTree for k cells and k centers: cell i weighs most on center i
\* ("own"), or the last cell joins center 0 and leaves its center empty
\* ("merged")
AssignmentMatrix(k, shape) ==
    [i \in 0..(k - 1) |-> [c \in 0..(k - 1) |->
        IF shape = "own"
        THEN (IF c = i THEN 2 ELSE 1)
        ELSE (IF c = (IF i = k - 1 THEN 0 ELSE i) THEN 1 ELSE 0)]]

\* the spanning tree's matrix: each edge {child, parent} carries the weight
\* child + 1, stored in both triangles or in one
TreeMatrix(k, orders, parents, storage) ==
    LET parent == DictOfZip(orders, parents)
        edge(a, b) == (parent[a] = b) \/ (parent[b] = a)
        weight(a, b) == IF parent[a] = b THEN a + 1 ELSE b + 1
    IN  [a \in 0..(k - 1) |-> [b \in 0..(k - 1) |->
            IF a # b /\ edge(a, b)
               /\ (storage = "both" \/ (storage = "upper" /\ a < b)
                   \/ (storage = "lower" /\ a > b))
            THEN weight(a, b) ELSE 0]]

\* adata.uns["cell_order"] as order_cells leaves it
CellOrder(k, orders, parents, storage, shape) ==
    [R |-> AssignmentMatrix(k, shape),
     centers_order |->
        [n \in 0..(k - 1) |-> (CHOOSE i \in 1..k : orders[i] = n) - 1],
     centers_parent |-> DictOfZip(orders, parents),
     centers_minSpanningTree |-> TreeMatrix(k, orders, parents, storage)]

\* whether the centers are numbered in their order: orders = 0, 1, 2, ...
InOrder(orders) == \A i \in DOMAIN orders : orders[i] = i - 1

\* an adata that cell_velocities() and order_cells() have filled in: every
\* tree with a matrix of at most one nonzero entry, and the trees whose
\* centers are numbered in order with every matrix of at most MaxNZ
InitData ==
    \E k \in 1..NumCenters : \E t \in TreeInputs(k) :
    \E storage \in {"both", "upper", "lower"} : \E shape \in {"own", "merged"} :
    \E T \in SparseMatrices(k, IF InOrder(t[1]) THEN MaxNZ ELSE 1, {1}) :
        /\ obsp = [key \in {"pearson_transition_matrix"} |-> T]
        /\ uns = [key \in {"cell_order"} |->
                     CellOrder(k, t[1], t[2], storage, shape)]

\* an adata with any of the keys present or missing
InitKeys ==
    \E okeys \in SUBSET {"pearson_transition_matrix", "cosine_transition_matrix",
                         "distances"} :
    \E ukeys \in SUBSET {"cell_order", "directed_velocity_tree", "pp"} :
        /\ obsp = [key \in okeys |->
                      [i \in 0..1 |-> [j \in 0..1 |-> IF i < j THEN 1 ELSE 0]]]
        /\ uns = [key \in ukeys |->
                     IF key = "cell_order"
                     THEN CellOrder(2, <<0, 1>>, <<NoParent, 0>>, "both", "own")
                     ELSE IF key = "directed_velocity_tree"
                     THEN [i \in 0..1 |-> [j \in 0..1 |-> 0]]
                     ELSE <<>>]

Init ==
    /\ InitData \/ InitKeys
    /\ installed = FALSE
    /\ effects = <<>>
    /\ call = NoCall
    /\ ret = NoRet
    /\ pre = <<>>

\* the body of construct_velocity_tree after its two key checks, up to the
\* end of the loop: the two arrays, or <<>> when segment_p[-1] raises
OrientTree(transition_matrix, cell_order) ==
    LET R == cell_order.R
        velocity_tree == cell_order.centers_minSpanningTree
    IN  Bind(ArgSort(cell_order.centers_order), LAMBDA orders :
        Bind(ParentsOf(cell_order.centers_parent, orders), LAMBDA parents :
        Bind(GetAllSegments(orders, parents), LAMBDA segments :
        Bind(ComputeCenterTransitionMatrix(transition_matrix, R),
             LAMBDA center_transition_matrix :
                 IF IndexErrorAt(segments)
                 THEN <<>>
                 ELSE OrientSegments(ArrayCopy(velocity_tree),
                                     center_transition_matrix, segments, 1)))))

\* the two checks made in the other order
KeyCheckSwapped(adata_obsp, adata_uns, transition_matrix_key) ==
    IF "cell_order" \notin DOMAIN adata_uns
    THEN "KeyError: Cell order information not found in anndata"
    ELSE IF ObspKey(transition_matrix_key) \notin DOMAIN adata_obsp
    THEN "KeyError: Transition matrix not found in anndata"
    ELSE ""

\* the two checks that open construct_velocity_tree: the KeyError raised,
\* or "" when both keys are there
KeyCheck(adata_obsp, adata_uns, transition_matrix_key) ==
    IF ObspKey(transition_matrix_key) \notin DOMAIN adata_obsp
    THEN "KeyError: Transition matrix not found in anndata"
    ELSE IF "cell_order" \notin DOMAIN adata_uns
    THEN "KeyError: Cell order information not found in anndata"
    ELSE ""

ConstructVelocityTree(transition_matrix_key) ==
    /\ call' = [fn |-> "construct_velocity_tree",
                transition_matrix_key |-> transition_matrix_key]
    /\ pre' = [obsp |-> obsp, uns |-> uns]
    /\ IF KeyCheck(obsp, uns, transition_matrix_key) # ""
       THEN /\ ret' = Raised(KeyCheck(obsp, uns, transition_matrix_key))
            /\ uns' = uns
       ELSE \E h \in {OrientTree(obsp[ObspKey(transition_matrix_key)],
                                 uns["cell_order"])} :
                IF h = <<>>
                THEN /\ ret' = Raised("IndexError")
                     /\ uns' = uns
                ELSE /\ ret' = Returned(h.directed_velocity_tree)
                     /\ uns' = SetItem(
                            [uns EXCEPT !["cell_order"].centers_minSpanningTree =
                                            h.velocity_tree],
                            "directed_velocity_tree", h.directed_velocity_tree)
    /\ UNCHANGED <<obsp, installed, effects>>

Next == \E key \in TransitionKeys : ConstructVelocityTree(key)

Spec == Init /\ [][Next]_vars

(***************************************************************************)
(* Properties of construct_velocity_tree.                                  *)
(***************************************************************************)
\* the last call was construct_velocity_tree and it returned
Succeeded == call.fn = "construct_velocity_tree" /\ ret.kind = "return"

\* the last call was construct_velocity_tree and it raised
Failed == call.fn = "construct_velocity_tree" /\ ret.kind = "raise"

\* what the last call of construct_velocity_tree was given
InCellOrder == pre.uns["cell_order"]

InTree == InCellOrder.centers_minSpanningTree

InSegments ==
    LET orders == ArgSort(InCellOrder.centers_order)
    IN  GetAllSegments(orders, ParentsOf(InCellOrder.centers_parent, orders))

InCenterMatrix ==
    ComputeCenterTransitionMatrix(
        pre.obsp[call.transition_matrix_key \o "_transition_matrix"],
        InCellOrder.R)

RECURSIVE RatProduct(_, _)
\* the product of f[i] for i in 1..n
RatProduct(f, n) ==
    IF n = 0 THEN RatOne ELSE RatMul(RatProduct(f, n - 1), f[n])

\* the product of the transition probabilities P[n(i-1), n(i)] along a segment
PathProbability(P, segment) ==
    RatProduct([i \in 1..(Len(segment) - 1) |-> P[segment[i]][segment[i + 1]]],
               Len(segment) - 1)

\* the final cumulative scores the code compares for a segment
FinalScore(P, segment) ==
    LET p == CalculateSegmentProbability(P, GetEdges(segment, <<>>))
    IN  p[Len(p)]

\* every edge of the segment points from its first node towards its last
OrientedAlong(directed, segment) ==
    \A e \in PairsOf(segment) :
        directed[e[1]][e[2]] # 0 /\ directed[e[2]][e[1]] = 0

\* every edge of the segment points from its last node towards its first
OrientedAgainst(directed, segment) ==
    \A e \in PairsOf(segment) :
        directed[e[2]][e[1]] # 0 /\ directed[e[1]][e[2]] = 0

\* the tree is stored undirected: both triangles hold every edge
Undirected(tree) ==
    \A a \in DOMAIN tree : \A b \in DOMAIN tree : tree[a][b] = tree[b][a]

\* C1: after construct_velocity_tree succeeds every tree edge {child, parent}
\* is resolved: exactly one of directed[child, parent] and
\* directed[parent, child] is nonzero, whatever the center transition matrix
\* (equal forward and reverse scores included).
C1_EveryEdgeResolved ==
    Succeeded =>
        \A child \in DOMAIN InCellOrder.centers_parent :
            LET parent == InCellOrder.centers_parent[child]
            IN  parent # NoParent =>
                    (ret.value[child][parent] # 0) # (ret.value[parent][child] # 0)

\* C2: every segment n0..nk (of an undirected input tree) is oriented
\* n0 -> ... -> nk exactly when the product of P[n(i-1), n(i)] along it is
\* greater than the product of P[n(i), n(i-1)] along its reverse, and the
\* other way exactly when it is smaller.
C2_OrientedByLikelihood ==
    (Succeeded /\ Undirected(InTree)) =>
        \A P \in {InCenterMatrix} : \A segments \in {InSegments} :
        \A s \in DOMAIN segments :
        \A fwd \in {PathProbability(P, segments[s])} :
        \A bwd \in {PathProbability(P, Reversed(segments[s]))} :
            /\ OrientedAlong(ret.value, segments[s]) <=> RatLess(bwd, fwd)
            /\ OrientedAgainst(ret.value, segments[s]) <=> RatLess(fwd, bwd)

\* the error cases of C4, on the adata the call was given
TransitionMatrixMissing ==
    (call.transition_matrix_key \o "_transition_matrix") \notin DOMAIN pre.obsp

CellOrderMissing == "cell_order" \notin DOMAIN pre.uns

\* C4: construct_velocity_tree raises KeyError when adata.obsp lacks
\* transition_matrix_key + "_transition_matrix" and KeyError when adata.uns
\* lacks "cell_order", the transition matrix being checked first, and in both
\* cases adata.uns (and adata.obsp) is left as it was.
C4_KeyErrors ==
    call.fn = "construct_velocity_tree" =>
        /\ TransitionMatrixMissing =>
               /\ ret = Raised("KeyError: Transition matrix not found in anndata")
               /\ uns = pre.uns /\ obsp = pre.obsp
        /\ (~TransitionMatrixMissing /\ CellOrderMissing) =>
               /\ ret = Raised("KeyError: Cell order information not found in anndata")
               /\ uns = pre.uns /\ obsp = pre.obsp
        /\ (~TransitionMatrixMissing /\ ~CellOrderMissing) =>
               ~(ret.kind = "raise" /\ ret.exc \in
                    {"KeyError: Transition matrix not found in anndata",
                     "KeyError: Cell order information not found in anndata"})

\* C4's case: both keys are missing, an older directed_velocity_tree is there
C4_Witness ==
    /\ Failed /\ TransitionMatrixMissing /\ CellOrderMissing
    /\ "directed_velocity_tree" \in DOMAIN uns

\* C6: on success the directed tree is returned and stored under
\* adata.uns["directed_velocity_tree"], while the input tree, every other
\* entry of adata.uns["cell_order"], every other entry of adata.uns and
\* adata.obsp are as they were.
C6_OnlyDirectedTreeWritten ==
    Succeeded =>
        /\ DOMAIN uns = DOMAIN pre.uns \cup {"directed_velocity_tree"}
        /\ uns["directed_velocity_tree"] = ret.value
        /\ \A key \in DOMAIN pre.uns \ {"directed_velocity_tree"} :
               uns[key] = pre.uns[key]
        /\ uns["cell_order"].centers_minSpanningTree = InTree
        /\ obsp = pre.obsp

\* C6's case: the orientation changed entries of the tree it was given
C6_Witness ==
    /\ Succeeded
    /\ ret.value # InTree
    /\ \E a \in DOMAIN InTree : \E b \in DOMAIN InTree :
           InTree[a][b] # 0 /\ ret.value[a][b] = 0

\* how the final forward score of a segment compares with its final reverse
\* score
ScoreOrder(P, segment) ==
    \* each score is computed once
    Bind(FinalScore(P, segment), LAMBDA fwd :
        Bind(FinalScore(P, Reversed(segment)), LAMBDA bwd :
            IF RatLess(bwd, fwd) THEN "greater"
            ELSE IF RatLess(fwd, bwd) THEN "smaller"
            ELSE "equal"))

\* what C8 says of one segment's pairs, by the final scores of the segment
SegmentEntries(directed, tree, order, segment) ==
    \A e \in PairsOf(segment) :
        LET r == e[1]
            c == e[2]
        IN  IF order = "greater"
            THEN /\ directed[r][c] = Max(tree[r][c], tree[c][r])
                 /\ directed[c][r] = 0
            ELSE IF order = "smaller"
            THEN /\ directed[c][r] = Max(tree[r][c], tree[c][r])
                 /\ directed[r][c] = 0
            ELSE /\ directed[r][c] = tree[r][c]
                 /\ directed[c][r] = tree[c][r]

\* all edges of the segment point the same way along it
SameWay(directed, segment) ==
    OrientedAlong(directed, segment) \/ OrientedAgainst(directed, segment)

MeltParameters ==
    {"id_vars", "value_vars", "var_name", "value_name", "col_level", "ignore_index"}

\* the keywords of the call net.reset_index().melt(...)
MeltKeywords == {"id_vars", "id_names", "var_name", "value_name"}

\* list(res_dict.keys())
DictKeys(d) == [i \in DOMAIN d |-> d[i][1]]

\* res_dict[key]
DictGet(d, key) == d[CHOOSE i \in DOMAIN d : d[i][1] = key][2]

\* res_dict.update({key: value}) with a key that is not in res_dict yet
DictUpdate(d, key, value) == Append(d, <<key, value>>)

\* list(res_dict.keys())[-1]
LastKey(d) == DictKeys(d)[Len(d)]

\* what scribe has done, and how it ended, when Scribe can be imported
ScribeRun(adata_uns, a) ==
    LET rdi == [net |-> "RDI", t0_key |-> a.nt_layers[2],
                t1_key |-> a.nt_layers[1], genes |-> a.genes]
        clr == [net |-> "CLR", of |-> "RDI", t0_key |-> a.nt_layers[2],
                t1_key |-> a.nt_layers[1], genes |-> a.genes]
        upto_net ==
            << <<"read_csv", a.motif_ref>>,
               <<"adata.copy">>,
               <<"szFactor">>,
               <<"normalize_data", a.nt_layers[1]>>,
               <<"normalize_data", a.nt_layers[2]>>,
               <<"causal_net_dynamics_coupling",
                 a.nt_layers[2], a.nt_layers[1]>> >>
        res_rdi == <<<<"RDI", rdi>>>>
        res_clr == IF a.do_CLR THEN DictUpdate(res_rdi, "CLR", clr) ELSE res_rdi
        upto_clr == IF a.do_CLR THEN Append(upto_net, <<"CLR", rdi>>) ELSE upto_net
        net == DictGet(res_clr, LastKey(res_clr))
        filtered == [net |-> "filtered", of |-> net.net, t0_key |-> net.t0_key,
                     t1_key |-> net.t1_key, genes |-> net.genes]
    IN  IF a.TF_link_ENCODE_ref = "None"
        THEN [effects |-> upto_clr,
              ret |-> Returned([uns |-> SetItem(adata_uns, "causal_net", res_clr)])]
        ELSE IF ~(MeltKeywords \subseteq MeltParameters)
        THEN \* melt() got an unexpected keyword argument
             [effects |-> upto_clr \o << <<"read_csv", a.TF_link_ENCODE_ref>>,
                                         <<"melt", net>> >>,
              ret |-> Raised("TypeError")]
        ELSE [effects |-> upto_clr \o << <<"read_csv", a.TF_link_ENCODE_ref>>,
                                         <<"melt", net>>,
                                         <<"TF_link_gene_chip", net>> >>,
              ret |-> Returned([uns |-> SetItem(adata_uns, "causal_net",
                                   DictUpdate(res_clr, "filtered", filtered))])]

ScribeArguments ==
    [genes : {<<>>, <<"g1", "g2">>},
     motif_ref : {"motifAnnotations_hgnc.csv", "motifs_mm.csv"},
     nt_layers : {<<"new", "total">>, <<"unspliced", "spliced">>},
     do_CLR : BOOLEAN,
     TF_link_ENCODE_ref : {"None", "df_gene_TF_link_ENCODE.csv", "chip.csv"}]

InitScribe ==
    /\ installed \in BOOLEAN
    /\ \E keys \in SUBSET {"causal_net", "pp"} :
           uns = [key \in keys |-> IF key = "causal_net" THEN "stale" ELSE <<>>]
    /\ obsp = <<>>
    /\ effects = <<>>
    /\ call = NoCall
    /\ ret = NoRet
    /\ pre = <<>>

Scribe(a) ==
    /\ call' = [fn |-> "scribe", args |-> a]
    /\ pre' = [uns |-> uns]
    /\ IF ~installed
       THEN /\ ret' = Raised("ImportError")
            /\ effects' = <<>>
       ELSE \E run \in {ScribeRun(uns, a)} :
                /\ ret' = run.ret
                /\ effects' = run.effects
    /\ UNCHANGED <<obsp, uns, installed>>

NextScribe == \E a \in ScribeArguments : Scribe(a)

SpecScribe == InitScribe /\ [][NextScribe]_vars

(***************************************************************************)
(* Properties of scribe.                                                   *)
(***************************************************************************)
\* the keys causal_net must hold for the arguments of the call
ExpectedNetKeys(a) ==
    {"RDI"} \cup (IF a.do_CLR THEN {"CLR"} ELSE {})
            \cup (IF a.TF_link_ENCODE_ref # "None" THEN {"filtered"} ELSE {})

\* C7: scribe returns a copy of its input whose uns["causal_net"] is a dict
\* that holds "RDI", holds "CLR" iff do_CLR, and holds "filtered" iff
\* TF_link_ENCODE_ref is not None; the ChIP-seq filter is given the CLR
\* network when do_CLR and the RDI network otherwise; and when Scribe cannot
\* be imported, ImportError is raised before anything is read or modified.
C7_ScribeResult ==
    call.fn = "scribe" =>
        IF installed
        THEN /\ ret.kind = "return"
             /\ DOMAIN ret.value.uns = DOMAIN pre.uns \cup {"causal_net"}
             /\ \A key \in DOMAIN pre.uns \ {"causal_net"} :
                    ret.value.uns[key] = pre.uns[key]
             /\ Range(DictKeys(ret.value.uns["causal_net"]))
                    = ExpectedNetKeys(call.args)
             /\ call.args.TF_link_ENCODE_ref # "None" =>
                    \E i \in DOMAIN effects :
                        /\ effects[i][1] = "TF_link_gene_chip"
                        /\ effects[i][2].net
                               = (IF call.args.do_CLR THEN "CLR" ELSE "RDI")
             /\ uns = pre.uns
        ELSE /\ ret = Raised("ImportError")
             /\ effects = <<>>
             /\ uns = pre.uns
====
